---- MODULE Spec2Model ----
(***************************************************************************)
(* Model of the reflexion native bridge (src/native/src/lib.rs): the       *)
(* eighteen typed field get/set entry points, the two internal helpers     *)
(* get_field_value / set_field_value, and the host runtime (classes,       *)
(* fields, objects) they act on through the JNI environment.               *)
(***************************************************************************)
EXTENDS Integers, FiniteSets, Sequences, TLC

\* ------------------------------------------------------------------------
\* signature types (lib.rs 31-38)
\* ------------------------------------------------------------------------
INT_TYPE == "I"
BOOL_TYPE == "Z"
BYTE_TYPE == "B"
CHAR_TYPE == "C"
LONG_TYPE == "J"
SHORT_TYPE == "S"
FLOAT_TYPE == "F"
DOUBLE_TYPE == "D"

PrimitiveTypes ==
  {INT_TYPE, BOOL_TYPE, BYTE_TYPE, CHAR_TYPE, LONG_TYPE, SHORT_TYPE, FLOAT_TYPE, DOUBLE_TYPE}

\* An object descriptor, as the callers of the object entry points pass it.
STRING_SIG == "Ljava/lang/String;"

\* The tag of a JValue that is an object reference (JValue::Object).
OBJECT_TAG == "L"

\* ------------------------------------------------------------------------
\* the host runtime the bridge is called in
\* ------------------------------------------------------------------------

\* Number of live instances of class Counter.
NumObjects == 2

\* The null reference: a null JObject receiver, a null object value.
NullRef == 0
Objects == 1..NumObjects
\* A reference to the java.lang.String "hello".
HelloRef == NumObjects + 1

\* A null JString argument (env.get_string fails on it).
NullStr == "<null>"

\* Loadable classes.  Counter declares `static T total; T value;` where T is
\* the descriptor held by fieldType.  No class is named Missing.
Classes == {"Counter"}
OwnerNames == {NullStr, "Counter", "Missing"}
FieldNames == {NullStr, "total", "value"}
Signatures == {NullStr, STRING_SIG, INT_TYPE}
Descriptors == PrimitiveTypes \cup {STRING_SIG}
Receivers == {NullRef} \cup Objects

\* Values a caller passes for each kind (jboolean, jbyte, jchar, jshort, jint,
\* jlong, jfloat, jdouble) and the object references it passes: both values
\* of a boolean, two ints, two references, and one representative of every
\* other kind (a field's default, 0, is a further value of each kind).  The
\* bridge never computes with a value, so jlong, jfloat and jdouble values
\* are tokens that fit the checker's integers.
Values(tag) ==
  CASE tag = BOOL_TYPE   -> {0, 1}
    [] tag = BYTE_TYPE   -> {-128}
    [] tag = CHAR_TYPE   -> {65535}
    [] tag = SHORT_TYPE  -> {-32768}
    [] tag = INT_TYPE    -> {42, -2147483647}
    [] tag = LONG_TYPE   -> {2147483647}
    [] tag = FLOAT_TYPE  -> {2143289344}
    [] tag = DOUBLE_TYPE -> {2146959360}
    [] OTHER             -> {NullRef, HelloRef}

\* Number of host threads that call the bridge at the same time.
NumThreads == 2
Threads == 1..NumThreads

\* Field locations: the static field Counter.total and each instance's value.
StaticLoc == <<NullRef, "total">>
InstLoc(o) == <<o, "value">>
Locations == {StaticLoc} \cup {InstLoc(o) : o \in Objects}

VARIABLES
  fieldType,   \* the descriptor T of Counter.total and Counter.value
  lookupEnv,   \* what the runtime offers to the trusted-lookup acquisition
  heap,        \* Locations -> the value the field holds
  lastSet,     \* history: Locations -> kind and value of the last setter
               \* that returned after addressing the field
  call,        \* the call in flight or just ended
  outcome,     \* "idle", "returned", "abort" or "structured"
  reason,      \* why the call failed ("none" if it did not)
  ret,         \* the value handed back to the caller
  pending,     \* the Java exception pending on the calling thread
  before,      \* heap as it was when the call was entered
  threads      \* host threads that call the bridge concurrently

vars ==
  <<fieldType, lookupEnv, heap, lastSet, call, outcome, reason, ret, pending, before, threads>>

\* ------------------------------------------------------------------------
\* the JNI environment, as the helpers use it
\* ------------------------------------------------------------------------

\* env.get_string(s): fails on a null JString.
get_string(s) == s # NullStr

\* env.find_class(owner): succeeds on a loadable class.
find_class(owner) == owner \in Classes

\* The class of a live instance (every instance is a Counter).
ClassOf(obj) == "Counter"

\* The <<name, descriptor>> pairs a class declares.
StaticFieldsOf(cls) == IF cls = "Counter" THEN {<<"total", fieldType>>} ELSE {}
InstanceFieldsOf(cls) == IF cls = "Counter" THEN {<<"value", fieldType>>} ELSE {}

\* The kind a descriptor parses to (JavaType::from_str), as a JValue tag.
TagOf(sig) == IF sig \in PrimitiveTypes THEN sig ELSE OBJECT_TAG

JValue(tag, v) == [tag |-> tag, v |-> v]
NoValue == [tag |-> "none", v |-> 0]

\* Result<JValue>: Ok(value) or Err, with the reason of the failure and the
\* Java exception the failed JNI call left pending.
Ok(tag, v) == [ok |-> TRUE, reason |-> "none", exc |-> "none", tag |-> tag, v |-> v]
Err(why, exc) == [ok |-> FALSE, reason |-> why, exc |-> exc, tag |-> "none", v |-> 0]

\* Faulty lookups that take the first field of that name, whatever its
\* descriptor.
get_static_field_id_by_name(cls, name, sig) == \E f \in StaticFieldsOf(cls) : f[1] = name
get_field_id_by_name(cls, name, sig) == \E f \in InstanceFieldsOf(cls) : f[1] = name

\* Field id lookup by name and descriptor (GetStaticFieldID / GetFieldID).
get_static_field_id(cls, name, sig) == <<name, sig>> \in StaticFieldsOf(cls)
get_field_id(cls, name, sig) == <<name, sig>> \in InstanceFieldsOf(cls)

\* A faulty designation under which the instances share one field.
FieldLoc_shared(on, name) == IF on = NullRef THEN <<on, name>> ELSE <<1, name>>

\* The location a resolved field id designates.
FieldLoc(on, name) == <<on, name>>

\* env.get_static_field(class, name, sig): the value is tagged by the kind
\* the descriptor parses to.
env_get_static_field(cls, name, sig) ==
  IF get_static_field_id(cls, name, sig)
    THEN Ok(TagOf(sig), heap[FieldLoc(NullRef, name)])
    ELSE Err("field", "NoSuchFieldError")

\* A faulty read that finds the field by its name and tags the value by the
\* field's own type.
env_get_field_tagged_by_field(on, name, sig) ==
  IF get_field_id_by_name(ClassOf(on), name, sig)
    THEN Ok(TagOf(fieldType), heap[<<on, name>>])
    ELSE Err("field", "NoSuchFieldError")

\* env.get_field(on, name, sig): looks the field up on the receiver's class.
env_get_field(on, name, sig) ==
  IF get_field_id(ClassOf(on), name, sig)
    THEN Ok(TagOf(sig), heap[FieldLoc(on, name)])
    ELSE Err("field", "NoSuchFieldError")

\* Result<()> of a set, with the heap it leaves.
SetOk(h) == [ok |-> TRUE, reason |-> "none", exc |-> "none", heap |-> h]
SetErr(why, exc) == [ok |-> FALSE, reason |-> why, exc |-> exc, heap |-> heap]

\* Faulty stores that report success and leave the field as it was.
env_set_static_field_lost(name, sig, value) == {SetOk(heap)}
env_set_field_lost(on, name, sig, value) ==
  IF value.tag # TagOf(sig) THEN {SetErr("tag", "none")}
  ELSE IF ~get_field_id(ClassOf(on), name, sig) THEN {SetErr("field", "NoSuchFieldError")}
  ELSE {SetOk(heap)}

\* env.set_static_field(class, field_id, value): dispatches on the tag of the
\* value alone and does not compare it with the field's type.  Storing a
\* value of another kind through the field id is undefined behaviour in the
\* runtime: the field ends up holding some value of its own type and the
\* call returns, or the process crashes.
env_set_static_field(name, sig, value) ==
  IF value.tag = TagOf(sig)
    THEN {SetOk([heap EXCEPT ![FieldLoc(NullRef, name)] = value.v])}
    ELSE {SetOk([heap EXCEPT ![FieldLoc(NullRef, name)] = g]) : g \in Values(sig)}
           \cup {SetErr("ub", "none")}

\* A faulty store that goes to the field of that name of every instance.
env_set_field_all_instances(on, name, sig, value) ==
  IF value.tag # TagOf(sig) THEN {SetErr("tag", "none")}
  ELSE IF ~get_field_id(ClassOf(on), name, sig) THEN {SetErr("field", "NoSuchFieldError")}
  ELSE {SetOk([l \in Locations |-> IF l[1] # NullRef /\ l[2] = name THEN value.v ELSE heap[l]])}

\* env.set_field(on, name, sig, value): checks the value's tag against the
\* descriptor, then looks the field up on the receiver's class, then stores.
env_set_field(on, name, sig, value) ==
  IF value.tag # TagOf(sig) THEN {SetErr("tag", "none")}
  ELSE IF ~get_field_id(ClassOf(on), name, sig) THEN {SetErr("field", "NoSuchFieldError")}
  ELSE {SetOk([heap EXCEPT ![FieldLoc(on, name)] = value.v])}

\* ------------------------------------------------------------------------
\* internal helper methods (lib.rs 621-677)
\* ------------------------------------------------------------------------

\* A faulty set_field_value that stores through the name before it resolves
\* the field by name and descriptor.
set_field_value_store_first(target, name, signature, on, value) ==
  IF ~get_string(name) THEN {SetErr("string", "none")}
  ELSE IF ~get_string(target) THEN {SetErr("string", "none")}
  ELSE LET cls == IF on = NullRef THEN target ELSE ClassOf(on)
           known == IF on = NullRef THEN find_class(target) /\ get_static_field_id_by_name(cls, name, signature)
                                    ELSE get_field_id_by_name(cls, name, signature)
           resolved == IF on = NullRef THEN find_class(target) /\ get_static_field_id(cls, name, signature)
                                       ELSE get_field_id(cls, name, signature)
           stored == IF known THEN [heap EXCEPT ![FieldLoc(on, name)] = value.v] ELSE heap
       IN IF on = NullRef /\ ~find_class(target)
            THEN {SetErr("class", "NoClassDefFoundError")}
          ELSE IF ~resolved
            THEN {[ok |-> FALSE, reason |-> "field", exc |-> "NoSuchFieldError", heap |-> stored]}
          ELSE {SetOk(stored)}

\* A get_field_value that resolves the owner before it looks at the receiver.
get_field_value_owner_first(target, name, signature, on) ==
  IF ~get_string(name) THEN Err("string", "none")
  ELSE IF ~get_string(target) THEN Err("string", "none")
  ELSE IF ~find_class(target) THEN Err("class", "NoClassDefFoundError")
  ELSE IF on = NullRef THEN env_get_static_field(target, name, signature)
  ELSE env_get_field(on, name, signature)

get_field_value(target, name, signature, on) ==
  IF ~get_string(name) THEN Err("string", "none")
  ELSE IF ~get_string(target) THEN Err("string", "none")
  ELSE IF on = NullRef
    THEN IF ~find_class(target)
           THEN Err("class", "NoClassDefFoundError")
           ELSE env_get_static_field(target, name, signature)
    ELSE env_get_field(on, name, signature)

set_field_value(target, name, signature, on, value) ==
  IF ~get_string(name) THEN {SetErr("string", "none")}
  ELSE IF ~get_string(target) THEN {SetErr("string", "none")}
  ELSE IF on = NullRef
    THEN IF ~find_class(target) THEN {SetErr("class", "NoClassDefFoundError")}
         ELSE IF ~get_static_field_id(target, name, signature)
           THEN {SetErr("field", "NoSuchFieldError")}
           ELSE env_set_static_field(name, signature, value)
    ELSE env_set_field(on, name, signature, value)

\* ------------------------------------------------------------------------
\* JValue accessors used by the getters: .l() .z() .b() .c() .s() .i() .j()
\* .f() .d() followed by expect
\* ------------------------------------------------------------------------

\* A faulty accessor that hands the value on without looking at its tag.
expect_unchecked(fv, tag) == fv

expect(fv, tag) ==
  IF ~fv.ok THEN fv
  ELSE IF fv.tag = tag THEN fv
  ELSE Err("tag", "none")

\* .z() turns the jboolean into a bool (b == JNI_TRUE), which goes back to
\* the caller as a jboolean.
z(fv) ==
  LET r == expect(fv, BOOL_TYPE)
  IN IF r.ok THEN Ok(BOOL_TYPE, IF r.v = 1 THEN 1 ELSE 0) ELSE r

\* ------------------------------------------------------------------------
\* the calls
\* ------------------------------------------------------------------------

NoCall ==
  [op |-> "none", kind |-> "none", target |-> NullStr, name |-> NullStr,
   sig |-> NullStr, on |-> NullRef, val |-> 0]
Call(op, kind, target, name, sig, on, val) ==
  [op |-> op, kind |-> kind, target |-> target, name |-> name,
   sig |-> sig, on |-> on, val |-> val]
NoWrite == [by |-> "none", val |-> 0]

\* A faulty ending of a getter that raises a catchable error where the code
\* panics.
EndGet_throws(c, fv) ==
  /\ outcome = "idle"
  /\ call' = c
  /\ outcome' = IF fv.ok THEN "returned" ELSE "structured"
  /\ reason' = fv.reason
  /\ ret' = IF fv.ok THEN JValue(fv.tag, fv.v) ELSE NoValue
  /\ pending' = fv.exc
  /\ before' = heap
  /\ UNCHANGED <<fieldType, lookupEnv, heap, lastSet, threads>>

\* A getter ends: it returns the narrowed value, or the panic aborts.  Every
\* unwrap/expect that fails panics inside an extern "system" function; the
\* panic cannot be caught by the Java caller and takes the process down (the
\* doc comments: "let it panic and crash your jvm"), whatever exception the
\* failed JNI call left pending.
EndGet(c, fv) ==
  /\ outcome = "idle"
  /\ call' = c
  /\ outcome' = IF fv.ok THEN "returned" ELSE "abort"
  /\ reason' = fv.reason
  /\ ret' = IF fv.ok THEN JValue(fv.tag, fv.v) ELSE NoValue
  /\ pending' = fv.exc
  /\ before' = heap
  /\ UNCHANGED <<fieldType, lookupEnv, heap, lastSet, threads>>

\* A setter ends: it returns nothing, or the panic aborts.
EndSet(c, results) ==
  /\ outcome = "idle"
  /\ \E r \in results :
       /\ call' = c
       /\ outcome' = IF r.ok THEN "returned" ELSE "abort"
       /\ reason' = r.reason
       /\ ret' = NoValue
       /\ pending' = r.exc
       /\ before' = heap
       /\ heap' = r.heap
       /\ lastSet' = IF r.ok
                       THEN [lastSet EXCEPT ![FieldLoc(c.on, c.name)] =
                                              [by |-> c.kind, val |-> c.val]]
                       ELSE lastSet
  /\ UNCHANGED <<fieldType, lookupEnv, threads>>

GetObjectFieldValue ==
  \E target \in OwnerNames, name \in FieldNames, signature \in Signatures, on \in Receivers :
    EndGet(Call("get", OBJECT_TAG, target, name, signature, on, 0),
           IF ~get_string(signature) THEN Err("string", "none")
           ELSE expect(get_field_value(target, name, signature, on), OBJECT_TAG))

GetZFieldValue ==
  \E target \in OwnerNames, name \in FieldNames, on \in Receivers :
    EndGet(Call("get", BOOL_TYPE, target, name, BOOL_TYPE, on, 0),
           z(get_field_value(target, name, BOOL_TYPE, on)))

GetBFieldValue ==
  \E target \in OwnerNames, name \in FieldNames, on \in Receivers :
    EndGet(Call("get", BYTE_TYPE, target, name, BYTE_TYPE, on, 0),
           expect(get_field_value(target, name, BYTE_TYPE, on), BYTE_TYPE))

GetCFieldValue ==
  \E target \in OwnerNames, name \in FieldNames, on \in Receivers :
    EndGet(Call("get", CHAR_TYPE, target, name, CHAR_TYPE, on, 0),
           expect(get_field_value(target, name, CHAR_TYPE, on), CHAR_TYPE))

GetSFieldValue ==
  \E target \in OwnerNames, name \in FieldNames, on \in Receivers :
    EndGet(Call("get", SHORT_TYPE, target, name, SHORT_TYPE, on, 0),
           expect(get_field_value(target, name, SHORT_TYPE, on), SHORT_TYPE))

\* A faulty int getter that passes the descriptor of a long.
GetIFieldValue_long_descriptor ==
  \E target \in OwnerNames, name \in FieldNames, on \in Receivers :
    EndGet(Call("get", INT_TYPE, target, name, LONG_TYPE, on, 0),
           expect(get_field_value(target, name, LONG_TYPE, on), INT_TYPE))

GetIFieldValue ==
  \E target \in OwnerNames, name \in FieldNames, on \in Receivers :
    EndGet(Call("get", INT_TYPE, target, name, INT_TYPE, on, 0),
           expect(get_field_value(target, name, INT_TYPE, on), INT_TYPE))

GetJFieldValue ==
  \E target \in OwnerNames, name \in FieldNames, on \in Receivers :
    EndGet(Call("get", LONG_TYPE, target, name, LONG_TYPE, on, 0),
           expect(get_field_value(target, name, LONG_TYPE, on), LONG_TYPE))

GetFFieldValue ==
  \E target \in OwnerNames, name \in FieldNames, on \in Receivers :
    EndGet(Call("get", FLOAT_TYPE, target, name, FLOAT_TYPE, on, 0),
           expect(get_field_value(target, name, FLOAT_TYPE, on), FLOAT_TYPE))

GetDFieldValue ==
  \E target \in OwnerNames, name \in FieldNames, on \in Receivers :
    EndGet(Call("get", DOUBLE_TYPE, target, name, DOUBLE_TYPE, on, 0),
           expect(get_field_value(target, name, DOUBLE_TYPE, on), DOUBLE_TYPE))

SetObjectFieldValue ==
  \E target \in OwnerNames, name \in FieldNames, signature \in Signatures,
     on \in Receivers, val \in Values(OBJECT_TAG) :
    EndSet(Call("set", OBJECT_TAG, target, name, signature, on, val),
           IF ~get_string(signature) THEN {SetErr("string", "none")}
           ELSE set_field_value(target, name, signature, on, JValue(OBJECT_TAG, val)))

SetZFieldValue ==
  \E target \in OwnerNames, name \in FieldNames, on \in Receivers, val \in Values(BOOL_TYPE) :
    EndSet(Call("set", BOOL_TYPE, target, name, BOOL_TYPE, on, val),
           set_field_value(target, name, BOOL_TYPE, on, JValue(BOOL_TYPE, val)))

SetBFieldValue ==
  \E target \in OwnerNames, name \in FieldNames, on \in Receivers, val \in Values(BYTE_TYPE) :
    EndSet(Call("set", BYTE_TYPE, target, name, BYTE_TYPE, on, val),
           set_field_value(target, name, BYTE_TYPE, on, JValue(BYTE_TYPE, val)))

SetCFieldValue ==
  \E target \in OwnerNames, name \in FieldNames, on \in Receivers, val \in Values(CHAR_TYPE) :
    EndSet(Call("set", CHAR_TYPE, target, name, CHAR_TYPE, on, val),
           set_field_value(target, name, CHAR_TYPE, on, JValue(CHAR_TYPE, val)))

SetSFieldValue ==
  \E target \in OwnerNames, name \in FieldNames, on \in Receivers, val \in Values(SHORT_TYPE) :
    EndSet(Call("set", SHORT_TYPE, target, name, SHORT_TYPE, on, val),
           set_field_value(target, name, SHORT_TYPE, on, JValue(SHORT_TYPE, val)))

SetIFieldValue ==
  \E target \in OwnerNames, name \in FieldNames, on \in Receivers, val \in Values(INT_TYPE) :
    EndSet(Call("set", INT_TYPE, target, name, INT_TYPE, on, val),
           set_field_value(target, name, INT_TYPE, on, JValue(INT_TYPE, val)))

SetJFieldValue ==
  \E target \in OwnerNames, name \in FieldNames, on \in Receivers, val \in Values(LONG_TYPE) :
    EndSet(Call("set", LONG_TYPE, target, name, LONG_TYPE, on, val),
           set_field_value(target, name, LONG_TYPE, on, JValue(LONG_TYPE, val)))

SetFFieldValue ==
  \E target \in OwnerNames, name \in FieldNames, on \in Receivers, val \in Values(FLOAT_TYPE) :
    EndSet(Call("set", FLOAT_TYPE, target, name, FLOAT_TYPE, on, val),
           set_field_value(target, name, FLOAT_TYPE, on, JValue(FLOAT_TYPE, val)))

SetDFieldValue ==
  \E target \in OwnerNames, name \in FieldNames, on \in Receivers, val \in Values(DOUBLE_TYPE) :
    EndSet(Call("set", DOUBLE_TYPE, target, name, DOUBLE_TYPE, on, val),
           set_field_value(target, name, DOUBLE_TYPE, on, JValue(DOUBLE_TYPE, val)))

\* ------------------------------------------------------------------------
\* trusted lookup acquisition (spec section 4.4; not part of lib.rs)
\* ------------------------------------------------------------------------

LookupEnvs == {"ok", "noClass", "noField", "wrongType"}
\* The reference to the runtime's privileged lookup singleton.
LookupRef == NumObjects + 2

\* The Java exception the failed step of the acquisition leaves pending on
\* the calling thread: the class lookup and the static field lookup fail in
\* the runtime, the check of the handle's type fails in the bridge.
lookup_exception ==
  CASE lookupEnv = "noClass" -> "NoClassDefFoundError"
    [] lookupEnv = "noField" -> "NoSuchFieldError"
    [] OTHER                 -> "none"

\* A faulty clearing that leaves the pending exception where it is.
exception_clear_skipped(p) == p

\* Clearing the pending error state of the thread.
exception_clear(p) == "none"

\* Raising the named error: it becomes the pending exception of the thread;
\* an exception that is already pending stays the pending one.
throw_new(p, name) == IF p = "none" THEN name ELSE p

acquire_trusted_lookup ==
  IF lookupEnv = "ok" THEN Ok(OBJECT_TAG, LookupRef)
  ELSE Err(lookupEnv, throw_new(exception_clear(lookup_exception), "LookupAcquisitionError"))

\* A faulty acquisition that unwraps its lookups as the field helpers do.
AcquireTrustedLookup_panics ==
  /\ outcome = "idle"
  /\ LET r == acquire_trusted_lookup IN
       /\ call' = Call("acquire", OBJECT_TAG, NullStr, NullStr, NullStr, NullRef, 0)
       /\ outcome' = IF r.ok THEN "returned" ELSE "abort"
       /\ reason' = r.reason
       /\ ret' = IF r.ok THEN JValue(r.tag, r.v) ELSE NoValue
       /\ pending' = lookup_exception
       /\ before' = heap
  /\ UNCHANGED <<fieldType, lookupEnv, heap, lastSet, threads>>

AcquireTrustedLookup ==
  /\ outcome = "idle"
  /\ LET r == acquire_trusted_lookup IN
       /\ call' = Call("acquire", OBJECT_TAG, NullStr, NullStr, NullStr, NullRef, 0)
       /\ outcome' = IF r.ok THEN "returned" ELSE "structured"
       /\ reason' = r.reason
       /\ ret' = IF r.ok THEN JValue(r.tag, r.v) ELSE NoValue
       /\ pending' = r.exc
       /\ before' = heap
  /\ UNCHANGED <<fieldType, lookupEnv, heap, lastSet, threads>>

\* The call is over: the caller has taken the value, or has caught the
\* error.  An aborted call took the process with it: nothing follows.
Return ==
  /\ outcome \in {"returned", "structured"}
  /\ call' = NoCall
  /\ outcome' = "idle"
  /\ reason' = "none"
  /\ ret' = NoValue
  /\ pending' = "none"
  /\ before' = heap
  /\ UNCHANGED <<fieldType, lookupEnv, heap, lastSet, threads>>

\* A host thread outside the bridge, with no call made.
IdleThread == [pc |-> "idle", call |-> NoCall, ret |-> NoValue, wrote |-> 0]

\* The runtimes a run starts in: every field type with a runtime that offers
\* the privileged lookup, and every way the lookup can be missing.
Runtimes ==
  {[fieldType |-> d, lookupEnv |-> "ok"] : d \in Descriptors}
    \cup {[fieldType |-> LONG_TYPE, lookupEnv |-> e] : e \in LookupEnvs}

Init ==
  /\ \E rt \in Runtimes : fieldType = rt.fieldType /\ lookupEnv = rt.lookupEnv
  /\ heap = [l \in Locations |-> 0]
  /\ lastSet = [l \in Locations |-> NoWrite]
  /\ call = NoCall
  /\ outcome = "idle"
  /\ reason = "none"
  /\ ret = NoValue
  /\ pending = "none"
  /\ before = heap
  /\ threads = [t \in Threads |-> IdleThread]

Next ==
  \/ GetObjectFieldValue
  \/ GetZFieldValue
  \/ GetBFieldValue
  \/ GetCFieldValue
  \/ GetSFieldValue
  \/ GetIFieldValue
  \/ GetJFieldValue
  \/ GetFFieldValue
  \/ GetDFieldValue
  \/ SetObjectFieldValue
  \/ SetZFieldValue
  \/ SetBFieldValue
  \/ SetCFieldValue
  \/ SetSFieldValue
  \/ SetIFieldValue
  \/ SetJFieldValue
  \/ SetFFieldValue
  \/ SetDFieldValue
  \/ AcquireTrustedLookup
  \/ Return

Spec == Init /\ [][Next]_vars

\* ------------------------------------------------------------------------
\* concurrent calls: every host thread makes one call, of an int entry point
\* or of the object setter, on a runtime whose Counter fields are ints.
\* A call first converts its strings and resolves the class and the field,
\* which reads no field, and then reads or writes the field through the
\* runtime's field access, one access of the runtime at a time.
\* ------------------------------------------------------------------------

\* The entry point of a get call and of a set call, by the call's kind.
get_entry(c) ==
  IF c.kind = OBJECT_TAG
    THEN IF ~get_string(c.sig) THEN Err("string", "none")
         ELSE expect(get_field_value(c.target, c.name, c.sig, c.on), OBJECT_TAG)
  ELSE IF c.kind = BOOL_TYPE THEN z(get_field_value(c.target, c.name, c.sig, c.on))
  ELSE expect(get_field_value(c.target, c.name, c.sig, c.on), c.kind)

set_entry(c) ==
  IF ~get_string(c.sig) THEN {SetErr("string", "none")}
  ELSE set_field_value(c.target, c.name, c.sig, c.on, JValue(c.kind, c.val))

\* The calls the threads make: GetIFieldValue and SetIFieldValue on class
\* Counter, on either field name, with any receiver, and SetObjectFieldValue
\* with the signature of an int.
ConcCalls ==
  {Call("get", INT_TYPE, "Counter", n, INT_TYPE, o, 0) :
     n \in {"total", "value"}, o \in Receivers}
  \cup {Call("set", INT_TYPE, "Counter", n, INT_TYPE, o, v) :
     n \in {"total", "value"}, o \in Receivers, v \in Values(INT_TYPE)}
  \cup {Call("set", OBJECT_TAG, "Counter", n, INT_TYPE, o, HelloRef) :
     n \in {"total", "value"}, o \in Receivers}

\* A panic in one call takes the process, and every thread, with it.
NoAbort == \A t \in Threads : threads[t].pc # "abort"

\* Thread t enters an entry point, which runs up to its field access: it
\* panics there if a conversion or a resolution fails.
ThreadEnter(t) ==
  /\ NoAbort
  /\ threads[t].pc = "idle"
  /\ \E c \in ConcCalls :
       LET failed == IF c.op = "get" THEN ~get_entry(c).ok
                     ELSE \A r \in set_entry(c) : ~r.ok
       IN threads' = [threads EXCEPT ![t] =
            [pc |-> IF failed THEN "abort" ELSE "resolved", call |-> c, ret |-> NoValue,
             wrote |-> 0]]
  /\ UNCHANGED <<fieldType, lookupEnv, heap, lastSet, call, outcome, reason, ret, pending, before>>

\* Thread t's call reads or writes the resolved field and returns.
ThreadAccess(t) ==
  /\ NoAbort
  /\ threads[t].pc = "resolved"
  /\ LET c == threads[t].call IN
       IF c.op = "get"
         THEN /\ threads' = [threads EXCEPT ![t].pc = "done",
                                            ![t].ret = JValue(get_entry(c).tag, get_entry(c).v)]
              /\ heap' = heap
         ELSE \E r \in set_entry(c) :
                /\ heap' = r.heap
                /\ threads' = [threads EXCEPT ![t].pc = IF r.ok THEN "done" ELSE "abort",
                                              ![t].wrote = r.heap[<<c.on, c.name>>]]
  /\ UNCHANGED <<fieldType, lookupEnv, lastSet, call, outcome, reason, ret, pending, before>>

ConcInit ==
  /\ fieldType = INT_TYPE
  /\ lookupEnv = "ok"
  /\ heap = [l \in Locations |-> 0]
  /\ lastSet = [l \in Locations |-> NoWrite]
  /\ call = NoCall
  /\ outcome = "idle"
  /\ reason = "none"
  /\ ret = NoValue
  /\ pending = "none"
  /\ before = heap
  /\ threads = [t \in Threads |-> IdleThread]

ConcNext == \E t \in Threads : ThreadEnter(t) \/ ThreadAccess(t)

SpecConc == ConcInit /\ [][ConcNext]_vars

\* ------------------------------------------------------------------------
\* properties
\* ------------------------------------------------------------------------

FieldCall == call.op \in {"get", "set"} /\ outcome # "idle"
StringsOk == get_string(call.name) /\ get_string(call.target) /\ get_string(call.sig)

\* The class the call's field is looked for in has a field of the call's
\* name among its static fields (null receiver) or instance fields.
NameDeclared ==
  IF call.on = NullRef
    THEN call.target \in Classes /\ \E f \in StaticFieldsOf(call.target) : f[1] = call.name
    ELSE \E f \in InstanceFieldsOf(ClassOf(call.on)) : f[1] = call.name

\* C1: a primitive getter of kind K that returns from the field at (name,
\* receiver) whose last write was a successful setter of kind K with value v
\* returns exactly v, on a static field (null receiver) as on an instance
\* field, whatever owner the two calls name.
C1_RoundTripPrimitive ==
  (/\ call.op = "get" /\ outcome = "returned"
   /\ call.kind \in PrimitiveTypes
   /\ lastSet[FieldLoc(call.on, call.name)].by = call.kind)
  => ret = JValue(call.kind, lastSet[FieldLoc(call.on, call.name)].val)

C1_Witness ==
  /\ call = Call("get", INT_TYPE, "Counter", "total", INT_TYPE, NullRef, 0)
  /\ outcome = "returned"
  /\ lastSet[StaticLoc] = [by |-> INT_TYPE, val |-> 42]
  /\ ret = JValue(INT_TYPE, 42)

\* C2: the object getter that returns from an object-typed field whose last
\* write was a successful object setter with reference r returns r, the
\* null reference included.
C2_RoundTripObject ==
  (/\ call.op = "get" /\ outcome = "returned"
   /\ call.kind = OBJECT_TAG
   /\ TagOf(fieldType) = OBJECT_TAG
   /\ lastSet[FieldLoc(call.on, call.name)].by = OBJECT_TAG)
  => ret = JValue(OBJECT_TAG, lastSet[FieldLoc(call.on, call.name)].val)

C2_Witness ==
  /\ call = Call("get", OBJECT_TAG, "Counter", "value", STRING_SIG, 1, 0)
  /\ outcome = "returned"
  /\ lastSet[InstLoc(1)] = [by |-> OBJECT_TAG, val |-> HelloRef]
  /\ ret = JValue(OBJECT_TAG, HelloRef)

\* C3: a get or set whose class has a field of the given name but none of
\* that name and the given descriptor aborts and leaves the heap alone; a
\* call that returns passed the descriptor of the field it accessed.
C3_ExactDescriptor ==
  /\ (FieldCall /\ StringsOk /\ NameDeclared /\ call.sig # fieldType)
       => (outcome = "abort" /\ ret = NoValue /\ heap = before)
  /\ (FieldCall /\ outcome = "returned") => call.sig = fieldType

C3_Witness ==
  /\ call = Call("get", INT_TYPE, "Counter", "total", INT_TYPE, NullRef, 0)
  /\ fieldType = LONG_TYPE
  /\ outcome = "abort" /\ reason = "field"

\* C4: a primitive getter of kind K invoked on a field of another kind K'
\* aborts and returns no value.
C4_KindMismatchAborts ==
  (/\ call.op = "get" /\ outcome # "idle"
   /\ call.kind \in PrimitiveTypes
   /\ NameDeclared
   /\ fieldType # call.kind)
  => (outcome = "abort" /\ ret = NoValue)

C4_Witness ==
  /\ call = Call("get", INT_TYPE, "Counter", "value", INT_TYPE, 1, 0)
  /\ fieldType = LONG_TYPE
  /\ lastSet[InstLoc(1)].by = LONG_TYPE
  /\ outcome = "abort" /\ ret = NoValue

\* C5: the receiver decides only between the static and the instance field:
\* with a live receiver the string conversions and the resolution of the
\* owner end as they do for the same owner, name and descriptor with the
\* null receiver.
C5_ReceiverOnlyPicksStaticness ==
  (FieldCall /\ StringsOk /\ call.on # NullRef)
    => LET s == get_field_value(call.target, call.name, call.sig, NullRef)
       IN /\ (s.reason = "string") = (reason = "string")
          /\ (s.reason = "class") = (reason = "class")

\* C6: every get and set, whatever the receiver, resolves the owner first:
\* with an owner that names no loadable class the call aborts and neither
\* reads nor writes a field.
C6_OwnerResolvedFirst ==
  (FieldCall /\ StringsOk /\ ~find_class(call.target))
    => (outcome = "abort" /\ ret = NoValue /\ heap = before)

\* C7: a set that aborts in a string conversion, in the resolution of the
\* class or in the resolution of the field leaves every field as it was.
C7_NoPartialWrite ==
  (call.op = "set" /\ outcome = "abort" /\ reason \in {"string", "class", "field"})
    => heap = before

C7_Witness ==
  /\ call.op = "set" /\ outcome = "abort" /\ reason = "field"
  /\ call.name = "total" /\ call.on = NullRef /\ call.target = "Counter"
  /\ heap[StaticLoc] # 0

\* C8: the object setter aborts and leaves the field unchanged whenever the
\* field designated by name and signature is not object-typed, with a null
\* receiver as with a live one.
C8_SetObjectOnPrimitiveAborts ==
  (/\ call.op = "set" /\ outcome # "idle"
   /\ call.kind = OBJECT_TAG
   /\ NameDeclared /\ call.sig = fieldType
   /\ TagOf(fieldType) # OBJECT_TAG)
  => (outcome = "abort" /\ heap = before)

\* C9: the object getter aborts and returns no reference whenever the
\* signature it is given is that of a primitive type.
C9_GetObjectOnPrimitiveAborts ==
  (/\ call.op = "get" /\ outcome # "idle"
   /\ call.kind = OBJECT_TAG
   /\ call.sig \in PrimitiveTypes)
  => (outcome = "abort" /\ ret = NoValue)

C9_Witness ==
  /\ call = Call("get", OBJECT_TAG, "Counter", "total", INT_TYPE, NullRef, 0)
  /\ fieldType = INT_TYPE
  /\ outcome = "abort" /\ reason = "tag"

\* C10: a field get or set ends returned or aborted, never in a catchable
\* error; every failure of one aborts it and returns no value; only the
\* trusted-lookup acquisition ends in a catchable error.
C10_TwoErrorPolicies ==
  /\ FieldCall => /\ outcome \in {"returned", "abort"}
                  /\ (reason # "none") = (outcome = "abort")
                  /\ outcome = "abort" => ret = NoValue
  /\ outcome = "structured" => call.op = "acquire"
  /\ (call.op = "acquire" /\ reason # "none") => outcome = "structured"

C10_Witness ==
  /\ call.op = "get" /\ call.on = NullRef /\ call.target = "Missing"
  /\ outcome = "abort" /\ reason = "class" /\ pending = "NoClassDefFoundError"

\* C11: the trusted-lookup acquisition never aborts: where the runtime
\* offers the lookup it returns the handle, and where the class, the field
\* or the handle type is missing it ends in a catchable error with no value.
C11_AcquireNeverAborts ==
  (call.op = "acquire" /\ outcome # "idle")
    => /\ outcome # "abort"
       /\ (lookupEnv = "ok") => (outcome = "returned" /\ ret = JValue(OBJECT_TAG, LookupRef))
       /\ (lookupEnv # "ok") => (outcome = "structured" /\ ret = NoValue /\ pending # "none")

C11_Witness ==
  /\ call.op = "acquire" /\ lookupEnv = "wrongType"
  /\ outcome = "structured" /\ reason = "wrongType"

\* C12: after a failed acquisition the one exception pending on the thread
\* is the error the acquisition raised, also where a failed lookup had left
\* an exception of the runtime pending: that one was cleared first.
C12_ClearedBeforeRaised ==
  (call.op = "acquire" /\ outcome = "structured") => pending = "LookupAcquisitionError"

C12_Witness ==
  /\ call.op = "acquire" /\ outcome = "structured"
  /\ lookup_exception = "NoClassDefFoundError"
  /\ pending = "LookupAcquisitionError"

\* C14: the registry holds the eight pairwise distinct one-character tags
\* Z B C S I J F D, and every primitive getter and setter passes the tag of
\* its own kind as the descriptor; only the object entry points pass a
\* descriptor of the caller.
C14_DescriptorFromRegistry ==
  /\ BOOL_TYPE = "Z" /\ BYTE_TYPE = "B" /\ CHAR_TYPE = "C" /\ SHORT_TYPE = "S"
  /\ INT_TYPE = "I" /\ LONG_TYPE = "J" /\ FLOAT_TYPE = "F" /\ DOUBLE_TYPE = "D"
  /\ Cardinality(PrimitiveTypes) = 8
  /\ (FieldCall /\ call.kind \in PrimitiveTypes) => call.sig = call.kind
  /\ (FieldCall /\ call.sig # call.kind) => call.kind = OBJECT_TAG

C14_Witness ==
  /\ call = Call("set", DOUBLE_TYPE, "Counter", "value", "D", 2, 2146959360)
  /\ outcome = "returned"
  /\ heap[InstLoc(2)] = 2146959360

\* C15: a value get_field_value returns (for any arguments, on the heap
\* between two calls) carries the tag of the descriptor it was called with,
\* as does the value a getter hands back; a primitive setter passes a value tagged by the kind
\* of the descriptor it passes; so the tag check of a primitive getter and
\* of a primitive setter never fails, and a primitive getter on a field of
\* another kind aborts in the resolution of the field.
C15_TagAgreement ==
  /\ outcome = "idle" =>
       \A t \in OwnerNames, n \in FieldNames, sg \in Descriptors, o \in Receivers :
         LET fv == get_field_value(t, n, sg, o) IN fv.ok => fv.tag = TagOf(sg)
  /\ (call.op = "get" /\ outcome = "returned") => ret.tag = TagOf(call.sig)
  /\ (FieldCall /\ call.kind \in PrimitiveTypes)
       => (call.kind = TagOf(call.sig) /\ reason \notin {"tag", "ub"})
  /\ (/\ call.op = "get" /\ outcome # "idle" /\ call.kind \in PrimitiveTypes
      /\ StringsOk /\ NameDeclared /\ fieldType # call.kind)
       => reason = "field"

C15_Witness ==
  /\ call = Call("get", DOUBLE_TYPE, "Counter", "total", DOUBLE_TYPE, NullRef, 0)
  /\ fieldType = INT_TYPE
  /\ heap[StaticLoc] = 42
  /\ outcome = "abort" /\ reason = "field"

Addr(t) == <<threads[t].call.on, threads[t].call.name>>
SetsDone(l) ==
  {t \in Threads : threads[t].pc = "done" /\ threads[t].call.op = "set" /\ Addr(t) = l}
AloneOnField(t) ==
  \A u \in Threads \ {t} : threads[u].pc # "idle" /\ Addr(u) # Addr(t)

\* C13: under every interleaving of the threads' calls, a call that is the
\* only one to address its field ends as it does when run alone (a get
\* returns the initial value, a set leaves what it wrote in the field); a
\* field that sets have written holds what one of them wrote, a field no
\* set has written holds its initial value, and a get returns the initial
\* value or what a set of that field wrote; what a set of the field's own
\* kind wrote is the value it was called with.
C13_IndependentCalls ==
  /\ \A t \in Threads : (threads[t].pc = "done" /\ AloneOnField(t))
       => IF threads[t].call.op = "get"
            THEN threads[t].ret = JValue(INT_TYPE, before[Addr(t)])
            ELSE heap[Addr(t)] = threads[t].wrote
  /\ \A l \in Locations :
       IF SetsDone(l) = {} THEN heap[l] = before[l]
       ELSE \E t \in SetsDone(l) : heap[l] = threads[t].wrote
  /\ \A t \in Threads : (threads[t].pc = "done" /\ threads[t].call.op = "get")
       => \/ threads[t].ret = JValue(INT_TYPE, before[Addr(t)])
          \/ \E u \in SetsDone(Addr(t)) : threads[t].ret = JValue(INT_TYPE, threads[u].wrote)
  /\ \A t \in Threads :
       (threads[t].pc = "done" /\ threads[t].call.op = "set"
          /\ threads[t].call.kind = TagOf(fieldType))
       => threads[t].wrote = threads[t].call.val

C13_Witness ==
  /\ threads[1].pc = "done"
  /\ threads[1].call = Call("set", INT_TYPE, "Counter", "value", INT_TYPE, 1, 42)
  /\ threads[2].pc = "done"
  /\ threads[2].call = Call("get", INT_TYPE, "Counter", "value", INT_TYPE, 2, 0)
  /\ threads[2].ret = JValue(INT_TYPE, 0)
  /\ heap[InstLoc(1)] = 42 /\ heap[InstLoc(2)] = 0

====
